---- MODULE Spec2Model ----
(***************************************************************************)
(* Model of the New Relic trace provider for steveo.                       *)
(*                                                                         *)
(* Two providers are modelled, as the repository holds two:                *)
(*   src/src/index.ts       getTraceProvider(newrelic)  ("index")          *)
(*   src/unnamed/part_000   traceProvider               ("part_000")       *)
(* wrapHandler, wrapHandlerSegment, onError and serializeTraceMetadata are *)
(* the same code in both; deserializeTraceMetadata differs and is modelled *)
(* once per provider.                                                      *)
(*                                                                         *)
(* JavaScript runs one turn at a time: `turn` names the flow whose         *)
(* synchronous code is running, and is released only at an await.          *)
(***************************************************************************)
EXTENDS Integers, Sequences, FiniteSets, TLC

\* ------------------------------------------------------------------ bounds
MaxCtx == 2        \* context objects the application creates
MaxCalls == 2      \* wrapHandler calls (one backend transaction each)
MaxNotices == 1    \* errors handed to newrelic.noticeError

\* ------------------------------------------------------------- JS values
\* A JavaScript value: its type, its primitive content, its own properties.
NoFields == [k \in {} |-> ""]
JSPrim(t, p) == [type |-> t, prim |-> p, fields |-> NoFields]
JSUndefined == JSPrim("undefined", "")
JSNull == JSPrim("null", "")
JSString(s) == JSPrim("string", s)
JSNumber(n) == JSPrim("number", n)
JSObject(m) == [type |-> "object", prim |-> "", fields |-> m]
JSArray(m) == [type |-> "array", prim |-> "", fields |-> m]

\* ToBoolean, as `if (context.distributedTraceHeaders)` and `a || b` apply it.
Truthy(v) ==
    /\ v.type \notin {"undefined", "null"}
    /\ ~(v.type = "number" /\ v.prim = "0")
    /\ ~(v.type = "string" /\ v.prim = "")

\* A mapping of string keys to string values.
IsHeaderMap(v) ==
    /\ v.type = "object"
    /\ \A k \in DOMAIN v.fields : v.fields[k].type = "string"

\* --------------------------------------------------------------- JSON text
\* A JSON text is the sequence of its lexemes.
Punct(s) == [k |-> "punct", v |-> s]
StrLex(s) == [k |-> "string", v |-> s]
NumLex(s) == [k |-> "number", v |-> s]
Literal(s) == [k |-> "literal", v |-> s]
BadLex(s) == [k |-> "bad", v |-> s]

\* The order in which own properties are enumerated.
KeyOrder == <<"traceparent", "newrelic">>
\* The property names of an array's elements.
IndexKeys == <<"0", "1">>

PrimLexeme(v) ==
    CASE v.type = "string" -> StrLex(v.prim)
      [] v.type = "number" -> NumLex(v.prim)
      [] OTHER -> Literal("null")

RECURSIVE StringifyMembers(_, _, _)
StringifyMembers(m, i, first) ==
    IF i > Len(KeyOrder) THEN <<>>
    ELSE IF KeyOrder[i] \in DOMAIN m
         THEN (IF first THEN <<>> ELSE <<Punct(",")>>)
              \o <<StrLex(KeyOrder[i]), Punct(":"), PrimLexeme(m[KeyOrder[i]])>>
              \o StringifyMembers(m, i + 1, FALSE)
         ELSE StringifyMembers(m, i + 1, first)

\* JSON.stringify(value) for a primitive or an object of primitives.
JSONstringify(v) ==
    IF v.type = "object"
    THEN <<Punct("{")>> \o StringifyMembers(v.fields, 1, TRUE) \o <<Punct("}")>>
    ELSE <<PrimLexeme(v)>>

IsPrimLexeme(l) ==
    l.k \in {"string", "number"} \/ l = Literal("null")

PrimValue(l) ==
    CASE l.k = "string" -> JSString(l.v)
      [] l.k = "number" -> JSNumber(l.v)
      [] OTHER -> JSNull

Put(m, key, val) ==
    [x \in DOMAIN m \cup {key} |-> IF x = key THEN val ELSE m[x]]

ParseOk(v) == [ok |-> TRUE, val |-> v]
SyntaxError == [ok |-> FALSE, val |-> JSUndefined]

\* The members of an object after "{" or ",": string ":" value, then "," or "}".
RECURSIVE ParseMembers(_, _)
ParseMembers(t, acc) ==
    IF Len(t) < 4 THEN SyntaxError
    ELSE IF t[1].k = "string" /\ t[2] = Punct(":") /\ IsPrimLexeme(t[3])
    THEN LET acc2 == Put(acc, t[1].v, PrimValue(t[3])) IN
         IF t[4] = Punct("}")
         THEN (IF Len(t) = 4 THEN ParseOk(JSObject(acc2)) ELSE SyntaxError)
         ELSE IF t[4] = Punct(",")
         THEN ParseMembers(SubSeq(t, 5, Len(t)), acc2)
         ELSE SyntaxError
    ELSE SyntaxError

\* The elements of an array after "[" or ",": value, then "," or "]".
RECURSIVE ParseElements(_, _, _)
ParseElements(t, acc, i) ==
    IF Len(t) < 2 \/ i > Len(IndexKeys) THEN SyntaxError
    ELSE IF IsPrimLexeme(t[1])
    THEN LET acc2 == Put(acc, IndexKeys[i], PrimValue(t[1])) IN
         IF t[2] = Punct("]")
         THEN (IF Len(t) = 2 THEN ParseOk(JSArray(acc2)) ELSE SyntaxError)
         ELSE IF t[2] = Punct(",")
         THEN ParseElements(SubSeq(t, 3, Len(t)), acc2, i + 1)
         ELSE SyntaxError
    ELSE SyntaxError

\* JSON.parse(text): the value, or a SyntaxError (ok = FALSE).
JSONparse(t) ==
    IF Len(t) = 0 THEN SyntaxError
    ELSE IF Len(t) = 1
    THEN (IF IsPrimLexeme(t[1]) THEN ParseOk(PrimValue(t[1])) ELSE SyntaxError)
    ELSE IF t = <<Punct("{"), Punct("}")>> THEN ParseOk(JSObject(NoFields))
    ELSE IF t = <<Punct("["), Punct("]")>> THEN ParseOk(JSArray(NoFields))
    ELSE IF t[1] = Punct("{") THEN ParseMembers(Tail(t), NoFields)
    ELSE IF t[1] = Punct("[") THEN ParseElements(Tail(t), NoFields, 1)
    ELSE SyntaxError

\* ------------------------------------------------------------------ inputs
TxNames == {"Foo", "Bar"}
SegmentNames == {"", "work"}
Errors == {"E1", "E2"}
HeaderKeys == {"traceparent", "newrelic"}
HeaderValues == {"p"}

\* Every mapping of header keys to header values, the empty one included.
HeaderMaps ==
    UNION { { JSObject([k \in D |-> JSString(h[k])]) : h \in [D -> HeaderValues] }
            : D \in SUBSET HeaderKeys }

FullMap == JSObject([k \in HeaderKeys |-> JSString("p")])

\* An argument of deserializeTraceMetadata: its typeof, and the text it is
\* (a string) or is coerced to by JSON.parse (anything else).
StringArg(t) == [type |-> "string", text |-> t]
TruncatedToken == StringArg(SubSeq(JSONstringify(FullMap), 1, 5))
NotJson == StringArg(<<BadLex("not-json")>>)
NullToken == StringArg(<<Literal("null")>>)
NumberToken == StringArg(<<NumLex("7")>>)
UndefinedArg == [type |-> "undefined", text |-> <<BadLex("undefined")>>]
MalformedArgs == {TruncatedToken, NotJson, UndefinedArg}
\* The token of a producer in another process.
UpstreamToken == StringArg(JSONstringify(FullMap))

\* ------------------------------------------------------------------- state
AllFlows == {"f1", "f2"}
\* The flows of the sequential specifications.
Flows == {"f1"}

VARIABLES
    contexts,   \* the context objects, by identity (index)
    ctxUses,    \* per context, the wrapHandler calls it was passed to
    txs,        \* the backend's transactions, by handle (index)
    segment,    \* per flow, the backend segment last started in it
    noticed,    \* the errors the backend was handed, with the ambient transaction
    pc,         \* per flow, where its wrapHandler call stands
    flow,       \* per flow, the locals of its wrapHandler call
    turn,       \* the flow whose synchronous code is running, or "none"
    last        \* the provider operation the last step was, and how it ended

vars == <<contexts, ctxUses, txs, segment, noticed, pc, flow, turn, last>>
backend == <<txs, segment, noticed>>

EmptyContext ==
    [has |-> {}, txName |-> "", transaction |-> 0,
     distributedTraceHeaders |-> JSUndefined]

NoFlow ==
    [txName |-> "", arg |-> 0, context |-> 0, use |-> 0, tx |-> 0,
     hadInbound |-> FALSE,
     inbound |-> JSUndefined, cbCalls |-> 0, cbSeen |-> EmptyContext,
     cbOutcome |-> "pending", handler |-> "pending", result |-> "pending"]

NoSegment ==
    [segmentName |-> JSUndefined, arg |-> 0, name |-> "", record |-> FALSE,
     tx |-> 0, state |-> "none", ends |-> 0, outcome |-> "pending",
     result |-> "pending"]

NoCall ==
    [op |-> "none", arg |-> 0, input |-> StringArg(<<>>),
     outcome |-> "none", text |-> <<>>, error |-> "",
     returned |-> EmptyContext, inserted |-> JSUndefined, calls |-> <<>>]

Init ==
    /\ contexts = <<>>
    /\ ctxUses = <<>>
    /\ txs = <<>>
    /\ segment = [f \in AllFlows |-> NoSegment]
    /\ noticed = <<>>
    /\ pc = [f \in AllFlows |-> "idle"]
    /\ flow = [f \in AllFlows |-> NoFlow]
    /\ turn = "none"
    /\ last = NoCall

\* context.field, `undefined` when the context is absent.
Has(c, field) == c # 0 /\ field \in contexts[c].has
\* The contexts a wrapHandler call in progress holds.
InUse ==
    { flow[f].context : f \in { g \in AllFlows : pc[g] \notin {"idle", "done"} } }
\* newrelic.getTransaction(): the transaction of the caller's async context.
getTransaction(who) == IF who \in AllFlows THEN flow[who].tx ELSE 0
\* Application code runs in the caller of wrapHandler, which awaits its
\* calls, or in a callback or work.
Running(who) ==
    \/ who = "top" /\ turn = "none" /\ \A f \in AllFlows : pc[f] \in {"idle", "done"}
    \/ who \in AllFlows /\ turn = who /\ pc[who] \in {"inCallback", "inWork"}

\* -------------------------------------------------------------- wrapHandler
\* The application makes a context of its own: `{}`.
newContext ==
    /\ turn = "none"
    /\ Len(contexts) < MaxCtx
    /\ contexts' = Append(contexts, EmptyContext)
    /\ ctxUses' = Append(ctxUses, 0)
    /\ last' = NoCall
    /\ UNCHANGED <<txs, segment, noticed, pc, flow, turn>>

\* Faulty variant: `const context = traceContext;` -- an absent context is not
\* replaced, and `context.txName = txName` throws a TypeError.
wrapHandler_noDefault(f, txName, traceContext) ==
    /\ turn = "none"
    /\ pc[f] = "idle"
    /\ Len(txs) < MaxCalls
    /\ traceContext \in (0 .. Len(contexts)) \ InUse
    /\ IF traceContext = 0
       THEN /\ flow' = [flow EXCEPT ![f] =
                   [NoFlow EXCEPT !.txName = txName, !.result = "TypeError"]]
            /\ pc' = [pc EXCEPT ![f] = "done"]
            /\ UNCHANGED <<contexts, ctxUses, turn>>
       ELSE /\ contexts' = [contexts EXCEPT ![traceContext].txName = txName,
                                ![traceContext].has = @ \cup {"txName"}]
            /\ ctxUses' = [ctxUses EXCEPT ![traceContext] = @ + 1]
            /\ flow' = [flow EXCEPT ![f] =
                   [NoFlow EXCEPT !.txName = txName, !.arg = traceContext,
                       !.context = traceContext,
                       !.use = ctxUses[traceContext] + 1,
                       !.hadInbound = "distributedTraceHeaders"
                                          \in contexts[traceContext].has,
                       !.inbound = contexts[traceContext].distributedTraceHeaders]]
            /\ pc' = [pc EXCEPT ![f] = "startBackgroundTransaction"]
            /\ turn' = f
    /\ last' = NoCall
    /\ UNCHANGED <<txs, segment, noticed>>

\* Faulty variant: `const context = { ...traceContext };` -- the call works on
\* a copy, and the caller's object is left as it was.
wrapHandler_copy(f, txName, traceContext) ==
    /\ turn = "none"
    /\ pc[f] = "idle"
    /\ Len(txs) < MaxCalls
    /\ traceContext \in (0 .. Len(contexts)) \ InUse
    /\ Len(contexts) < MaxCtx
    /\ LET c == Len(contexts) + 1
           base == Append(contexts, IF traceContext = 0 THEN EmptyContext
                                    ELSE contexts[traceContext])
       IN /\ contexts' = [base EXCEPT ![c].txName = txName,
                                      ![c].has = @ \cup {"txName"}]
          /\ ctxUses' = Append(ctxUses, 1)
          /\ flow' = [flow EXCEPT ![f] =
                 [NoFlow EXCEPT !.txName = txName, !.arg = traceContext,
                     !.context = c, !.use = 1,
                     !.hadInbound = "distributedTraceHeaders" \in base[c].has,
                     !.inbound = base[c].distributedTraceHeaders]]
    /\ pc' = [pc EXCEPT ![f] = "startBackgroundTransaction"]
    /\ turn' = f
    /\ last' = NoCall
    /\ UNCHANGED <<txs, segment, noticed>>

\* Faulty variant: `const context = traceContext || defaultContext;` -- the
\* calls made without a context share one object of the module, the first
\* context there is.
wrapHandler_sharedDefault(f, txName, traceContext) ==
    /\ turn = "none"
    /\ pc[f] = "idle"
    /\ Len(txs) < MaxCalls
    /\ traceContext \in (0 .. Len(contexts)) \ InUse
    /\ traceContext = 0 => Len(contexts) < MaxCtx
    /\ LET fresh == traceContext = 0 /\ contexts = <<>>
           c == IF fresh THEN 1 ELSE IF traceContext = 0 THEN 1 ELSE traceContext
           base == IF fresh THEN <<EmptyContext>> ELSE contexts
       IN /\ contexts' = [base EXCEPT ![c].txName = txName,
                                      ![c].has = @ \cup {"txName"}]
          /\ ctxUses' = IF fresh THEN <<1>> ELSE [ctxUses EXCEPT ![c] = @ + 1]
          /\ flow' = [flow EXCEPT ![f] =
                 [NoFlow EXCEPT !.txName = txName, !.arg = traceContext,
                     !.context = c,
                     !.use = IF fresh THEN 1 ELSE ctxUses[c] + 1,
                     !.hadInbound = "distributedTraceHeaders" \in base[c].has,
                     !.inbound = base[c].distributedTraceHeaders]]
    /\ pc' = [pc EXCEPT ![f] = "startBackgroundTransaction"]
    /\ turn' = f
    /\ last' = NoCall
    /\ UNCHANGED <<txs, segment, noticed>>

\* wrapHandler up to its call of the backend:
\*   const context = traceContext || {};  context.txName = txName;
\* traceContext = 0 is an absent (undefined) argument.
wrapHandler(f, txName, traceContext) ==
    /\ turn = "none"
    /\ pc[f] = "idle"
    /\ Len(txs) < MaxCalls
    /\ traceContext \in (0 .. Len(contexts)) \ InUse
    /\ traceContext = 0 => Len(contexts) < MaxCtx
    /\ LET c == IF traceContext = 0 THEN Len(contexts) + 1 ELSE traceContext
           base == IF traceContext = 0 THEN Append(contexts, EmptyContext)
                   ELSE contexts
       IN /\ contexts' = [base EXCEPT ![c].txName = txName,
                                      ![c].has = @ \cup {"txName"}]
          /\ ctxUses' = IF traceContext = 0 THEN Append(ctxUses, 1)
                        ELSE [ctxUses EXCEPT ![c] = @ + 1]
          /\ flow' = [flow EXCEPT ![f] =
                 [NoFlow EXCEPT !.txName = txName, !.arg = traceContext,
                     !.context = c,
                     !.use = IF traceContext = 0 THEN 1 ELSE ctxUses[c] + 1,
                     !.hadInbound = "distributedTraceHeaders" \in base[c].has,
                     !.inbound = base[c].distributedTraceHeaders]]
    /\ pc' = [pc EXCEPT ![f] = "startBackgroundTransaction"]
    /\ turn' = f
    /\ last' = NoCall
    /\ UNCHANGED <<txs, segment, noticed>>

\* newrelic.startBackgroundTransaction(txName, handle): the backend opens a
\* transaction, makes it the one of this async context and calls handle.
startBackgroundTransaction(f) ==
    /\ turn = f
    /\ pc[f] = "startBackgroundTransaction"
    /\ txs' = Append(txs, [name |-> flow[f].txName, state |-> "open",
                           ends |-> 0, accepted |-> <<>>])
    /\ flow' = [flow EXCEPT ![f].tx = Len(txs) + 1]
    /\ pc' = [pc EXCEPT ![f] = "getTransaction"]
    /\ last' = NoCall
    /\ UNCHANGED <<contexts, ctxUses, segment, noticed, turn>>

\* Faulty variant: the handle goes on to the callback without the `if` block.
setTransaction_skipAccept(f) ==
    /\ turn = f
    /\ pc[f] = "getTransaction"
    /\ contexts' = [contexts EXCEPT
           ![flow[f].context].transaction = getTransaction(f),
           ![flow[f].context].has = @ \cup {"transaction"}]
    /\ pc' = [pc EXCEPT ![f] = "invokeCallback"]
    /\ last' = NoCall
    /\ UNCHANGED <<ctxUses, txs, segment, noticed, flow, turn>>

\* context.transaction = newrelic.getTransaction();
setTransaction(f) ==
    /\ turn = f
    /\ pc[f] = "getTransaction"
    /\ contexts' = [contexts EXCEPT
           ![flow[f].context].transaction = getTransaction(f),
           ![flow[f].context].has = @ \cup {"transaction"}]
    /\ pc' = [pc EXCEPT ![f] = "acceptHeaders"]
    /\ last' = NoCall
    /\ UNCHANGED <<ctxUses, txs, segment, noticed, flow, turn>>

\* Faulty variant: the field is deleted before it is read for the backend.
acceptDistributedTraceHeaders_deleteFirst(f) ==
    /\ turn = f
    /\ pc[f] = "acceptHeaders"
    /\ LET c == flow[f].context
           ctx == contexts[c]
       IN IF "distributedTraceHeaders" \in ctx.has
             /\ Truthy(ctx.distributedTraceHeaders)
          THEN /\ txs' = [txs EXCEPT ![ctx.transaction].accepted =
                     Append(@, [category |-> "Queue", headers |-> JSUndefined,
                                context |-> c, use |-> ctxUses[c]])]
               /\ contexts' = [contexts EXCEPT
                      ![c].has = @ \ {"distributedTraceHeaders"},
                      ![c].distributedTraceHeaders = JSUndefined]
          ELSE UNCHANGED <<txs, contexts>>
    /\ pc' = [pc EXCEPT ![f] = "invokeCallback"]
    /\ last' = NoCall
    /\ UNCHANGED <<ctxUses, segment, noticed, flow, turn>>

\* Faulty variant: the field is accepted and left on the context.
acceptDistributedTraceHeaders_noDelete(f) ==
    /\ turn = f
    /\ pc[f] = "acceptHeaders"
    /\ LET c == flow[f].context
           ctx == contexts[c]
       IN IF "distributedTraceHeaders" \in ctx.has
             /\ Truthy(ctx.distributedTraceHeaders)
          THEN txs' = [txs EXCEPT ![ctx.transaction].accepted =
                     Append(@, [category |-> "Queue",
                                headers |-> ctx.distributedTraceHeaders,
                                context |-> c, use |-> ctxUses[c]])]
          ELSE UNCHANGED txs
    /\ pc' = [pc EXCEPT ![f] = "invokeCallback"]
    /\ last' = NoCall
    /\ UNCHANGED <<contexts, ctxUses, segment, noticed, flow, turn>>

\* if (context.distributedTraceHeaders) {
\*   context.transaction.acceptDistributedTraceHeaders('Queue', ...);
\*   delete context.distributedTraceHeaders; }
acceptDistributedTraceHeaders(f) ==
    /\ turn = f
    /\ pc[f] = "acceptHeaders"
    /\ LET c == flow[f].context
           ctx == contexts[c]
       IN IF "distributedTraceHeaders" \in ctx.has
             /\ Truthy(ctx.distributedTraceHeaders)
          THEN /\ txs' = [txs EXCEPT ![ctx.transaction].accepted =
                     Append(@, [category |-> "Queue",
                                headers |-> ctx.distributedTraceHeaders,
                                context |-> c, use |-> ctxUses[c]])]
               /\ contexts' = [contexts EXCEPT
                      ![c].has = @ \ {"distributedTraceHeaders"},
                      ![c].distributedTraceHeaders = JSUndefined]
          ELSE UNCHANGED <<txs, contexts>>
    /\ pc' = [pc EXCEPT ![f] = "invokeCallback"]
    /\ last' = NoCall
    /\ UNCHANGED <<ctxUses, segment, noticed, flow, turn>>

\* await callback(context): the callback starts, in the same turn.
invokeCallback(f) ==
    /\ turn = f
    /\ pc[f] = "invokeCallback"
    /\ flow' = [flow EXCEPT ![f].cbCalls = @ + 1,
                            ![f].cbSeen = contexts[flow[f].context]]
    /\ pc' = [pc EXCEPT ![f] = "inCallback"]
    /\ last' = NoCall
    /\ UNCHANGED <<contexts, ctxUses, txs, segment, noticed, turn>>

\* The callback awaits something of its own.
callbackSuspend(f) ==
    /\ turn = f
    /\ pc[f] = "inCallback"
    /\ pc' = [pc EXCEPT ![f] = "callbackSuspended"]
    /\ turn' = "none"
    /\ last' = NoCall
    /\ UNCHANGED <<contexts, ctxUses, txs, segment, noticed, flow>>

callbackResume(f) ==
    /\ turn = "none"
    /\ pc[f] = "callbackSuspended"
    /\ pc' = [pc EXCEPT ![f] = "inCallback"]
    /\ turn' = f
    /\ last' = NoCall
    /\ UNCHANGED <<contexts, ctxUses, txs, segment, noticed, flow>>

\* The callback's promise settles: fulfilled ("ok") or rejected with an error.
callbackSettle(f, outcome) ==
    /\ turn = f
    /\ pc[f] = "inCallback"
    /\ flow' = [flow EXCEPT ![f].cbOutcome = outcome]
    /\ pc' = [pc EXCEPT ![f] = "callbackSettled"]
    /\ turn' = "none"
    /\ last' = NoCall
    /\ UNCHANGED <<contexts, ctxUses, txs, segment, noticed>>

\* Faulty variant: the handle catches what the callback raises.
handlerSettle_swallow(f) ==
    /\ turn = "none"
    /\ pc[f] = "callbackSettled"
    /\ flow' = [flow EXCEPT ![f].handler = "ok"]
    /\ pc' = [pc EXCEPT ![f] = "handlerSettled"]
    /\ last' = NoCall
    /\ UNCHANGED <<contexts, ctxUses, txs, segment, noticed, turn>>

\* Faulty variant: `callback(context);` without await -- the handle settles while
\* the callback is still pending.
handlerSettle_noAwait(f) ==
    /\ turn = "none"
    /\ pc[f] \in {"callbackSuspended", "callbackSettled"}
    /\ flow' = [flow EXCEPT ![f].handler = "ok"]
    /\ pc' = [pc EXCEPT ![f] = "handlerSettled"]
    /\ last' = NoCall
    /\ UNCHANGED <<contexts, ctxUses, txs, segment, noticed, turn>>

\* The async handle resumes after `await callback(context)` and settles as
\* the callback did.
handlerSettle(f) ==
    /\ turn = "none"
    /\ pc[f] = "callbackSettled"
    /\ flow' = [flow EXCEPT ![f].handler = flow[f].cbOutcome]
    /\ pc' = [pc EXCEPT ![f] = "handlerSettled"]
    /\ last' = NoCall
    /\ UNCHANGED <<contexts, ctxUses, txs, segment, noticed, turn>>

\* The backend ends the transaction when the promise handle returned settles.
endTransaction(f) ==
    /\ turn = "none"
    /\ pc[f] = "handlerSettled"
    /\ txs' = [txs EXCEPT ![flow[f].tx].state = "closed",
                          ![flow[f].tx].ends = @ + 1]
    /\ pc' = [pc EXCEPT ![f] = "transactionEnded"]
    /\ last' = NoCall
    /\ UNCHANGED <<contexts, ctxUses, segment, noticed, flow, turn>>

\* Faulty variant: `finally { delete context.transaction; }` -- the handle is
\* taken off the context when the call is over.
wrapHandlerSettle_clearHandle(f) ==
    /\ turn = "none"
    /\ pc[f] = "transactionEnded"
    /\ flow' = [flow EXCEPT ![f].result = flow[f].handler]
    /\ contexts' = [contexts EXCEPT
           ![flow[f].context].has = @ \ {"transaction"},
           ![flow[f].context].transaction = 0]
    /\ pc' = [pc EXCEPT ![f] = "done"]
    /\ last' = NoCall
    /\ UNCHANGED <<ctxUses, txs, segment, noticed, turn>>

\* `await newrelic.startBackgroundTransaction(...)` resumes: wrapHandler's
\* promise settles as the handle's did.
wrapHandlerSettle(f) ==
    /\ turn = "none"
    /\ pc[f] = "transactionEnded"
    /\ flow' = [flow EXCEPT ![f].result = flow[f].handler]
    /\ pc' = [pc EXCEPT ![f] = "done"]
    /\ last' = NoCall
    /\ UNCHANGED <<contexts, ctxUses, txs, segment, noticed, turn>>

\* The caller is done with the call; the flow may make another.
release(f) ==
    /\ turn = "none"
    /\ pc[f] = "done"
    /\ flow' = [flow EXCEPT ![f] = NoFlow]
    /\ segment' = [segment EXCEPT ![f] = NoSegment]
    /\ pc' = [pc EXCEPT ![f] = "idle"]
    /\ last' = NoCall
    /\ UNCHANGED <<contexts, ctxUses, txs, noticed, turn>>

\* ------------------------------------------------------- wrapHandlerSegment
\* Faulty variant: the segment name is passed on as given.
SegmentName_noDefault(segmentName, traceContext) == segmentName.prim

\* segmentName || `${traceContext?.txName}-segment`
SegmentName(segmentName, traceContext) ==
    IF Truthy(segmentName) THEN segmentName.prim
    ELSE (IF Has(traceContext, "txName") THEN contexts[traceContext].txName
          ELSE "undefined") \o "-segment"

\* await newrelic.startSegment(name, true, callback): the backend opens the
\* segment in the caller's transaction and calls the work, in the same turn.
wrapHandlerSegment(f, segmentName, traceContext) ==
    /\ turn = f
    /\ pc[f] = "inCallback"
    /\ traceContext \in 0 .. Len(contexts)
    /\ segment' = [segment EXCEPT ![f] =
           [NoSegment EXCEPT !.segmentName = segmentName, !.arg = traceContext,
               !.name = SegmentName(segmentName, traceContext),
               !.record = TRUE, !.tx = getTransaction(f), !.state = "open"]]
    /\ pc' = [pc EXCEPT ![f] = "inWork"]
    /\ last' = NoCall
    /\ UNCHANGED <<contexts, ctxUses, txs, noticed, flow, turn>>

\* Faulty variant: the segment is ended when the work first gives up its turn,
\* as when the work's promise is not handed back to the backend.
workSuspend_endsSegment(f) ==
    /\ turn = f
    /\ pc[f] = "inWork"
    /\ segment' = [segment EXCEPT ![f].state = "closed", ![f].ends = @ + 1]
    /\ pc' = [pc EXCEPT ![f] = "workSuspended"]
    /\ turn' = "none"
    /\ last' = NoCall
    /\ UNCHANGED <<contexts, ctxUses, txs, noticed, flow>>

\* The work awaits something of its own.
workSuspend(f) ==
    /\ turn = f
    /\ pc[f] = "inWork"
    /\ pc' = [pc EXCEPT ![f] = "workSuspended"]
    /\ turn' = "none"
    /\ last' = NoCall
    /\ UNCHANGED <<contexts, ctxUses, txs, segment, noticed, flow>>

workResume(f) ==
    /\ turn = "none"
    /\ pc[f] = "workSuspended"
    /\ pc' = [pc EXCEPT ![f] = "inWork"]
    /\ turn' = f
    /\ last' = NoCall
    /\ UNCHANGED <<contexts, ctxUses, txs, segment, noticed, flow>>

\* The work settles: fulfilled ("ok") or rejected with an error.
workSettle(f, outcome) ==
    /\ turn = f
    /\ pc[f] = "inWork"
    /\ segment' = [segment EXCEPT ![f].outcome = outcome]
    /\ pc' = [pc EXCEPT ![f] = "workSettled"]
    /\ turn' = "none"
    /\ last' = NoCall
    /\ UNCHANGED <<contexts, ctxUses, txs, noticed, flow>>

\* The backend ends the segment when the work has settled.
endSegment(f) ==
    /\ turn = "none"
    /\ pc[f] = "workSettled"
    /\ segment' = [segment EXCEPT ![f].state = "closed", ![f].ends = @ + 1]
    /\ pc' = [pc EXCEPT ![f] = "segmentEnded"]
    /\ last' = NoCall
    /\ UNCHANGED <<contexts, ctxUses, txs, noticed, flow, turn>>

\* `await newrelic.startSegment(...)` resumes: wrapHandlerSegment's promise
\* settles as the work did, and the callback that awaited it goes on.
wrapHandlerSegmentSettle(f) ==
    /\ turn = "none"
    /\ pc[f] = "segmentEnded"
    /\ segment' = [segment EXCEPT ![f].result = segment[f].outcome]
    /\ pc' = [pc EXCEPT ![f] = "inCallback"]
    /\ turn' = f
    /\ last' = NoCall
    /\ UNCHANGED <<contexts, ctxUses, txs, noticed, flow>>

\* ------------------------------------------------------------------ onError
\* Faulty variant: the error is reported against the transaction of the
\* context passed in.
onError_fromContext(who, err, traceContext) ==
    /\ Running(who)
    /\ traceContext \in 0 .. Len(contexts)
    /\ Len(noticed) < MaxNotices
    /\ noticed' = Append(noticed,
           [error |-> err,
            tx |-> IF Has(traceContext, "transaction")
                   THEN contexts[traceContext].transaction ELSE 0])
    /\ last' = [NoCall EXCEPT !.op = "onError",
                   !.arg = traceContext, !.error = err, !.outcome = "return",
                   !.calls = <<"noticeError">>]
    /\ UNCHANGED <<contexts, ctxUses, txs, segment, pc, flow, turn>>

\* newrelic.noticeError(err); the context argument is not read.
onError(who, err, traceContext) ==
    /\ Running(who)
    /\ traceContext \in 0 .. Len(contexts)
    /\ Len(noticed) < MaxNotices
    /\ noticed' = Append(noticed, [error |-> err, tx |-> getTransaction(who)])
    /\ last' = [NoCall EXCEPT !.op = "onError",
                   !.arg = traceContext, !.error = err, !.outcome = "return",
                   !.calls = <<"noticeError">>]
    /\ UNCHANGED <<contexts, ctxUses, txs, segment, pc, flow, turn>>

\* --------------------------------------------------- serializeTraceMetadata
\* transaction.insertDistributedTraceHeaders(headers): the backend writes the
\* headers H of the trace into the object it is given.
insertDistributedTraceHeaders(headers, H) ==
    JSObject([k \in DOMAIN headers.fields \cup DOMAIN H.fields |->
                 IF k \in DOMAIN H.fields THEN H.fields[k] ELSE headers.fields[k]])

\* Faulty variant: without a transaction, empty headers are serialized.
serializeTraceMetadata_silent(who, traceContext) ==
    /\ Running(who)
    /\ traceContext \in 0 .. Len(contexts)
    /\ \E H \in IF Has(traceContext, "transaction") THEN HeaderMaps
                 ELSE {JSObject(NoFields)} :
          last' = [NoCall EXCEPT !.op = "serializeTraceMetadata",
                      !.arg = traceContext, !.outcome = "return",
                      !.inserted = H, !.text = JSONstringify(H)]
    /\ UNCHANGED <<contexts, ctxUses, txs, segment, noticed, pc, flow, turn>>

\* Faulty variant: the empty object is serialized without being handed to the
\* backend, whose headers for the trace are H.
serializeTraceMetadata_noInsert(who, traceContext) ==
    /\ Running(who)
    /\ traceContext \in 0 .. Len(contexts)
    /\ IF ~Has(traceContext, "transaction")
       THEN last' = [NoCall EXCEPT !.op = "serializeTraceMetadata", !.arg = traceContext,
                        !.outcome = "throw", !.error = "MissingTransaction"]
       ELSE \E H \in HeaderMaps :
              last' = [NoCall EXCEPT !.op = "serializeTraceMetadata", !.arg = traceContext,
                          !.outcome = "return", !.inserted = H,
                          !.text = JSONstringify(JSObject(NoFields))]
    /\ UNCHANGED <<contexts, ctxUses, txs, segment, noticed, pc, flow, turn>>

\* if (!context?.transaction) throw new Error('Property `transaction` ...');
\* const traceHeaders = {};
\* context.transaction.insertDistributedTraceHeaders(traceHeaders);
\* return JSON.stringify(traceHeaders);
\* The backend writes the headers H of its choice into traceHeaders.
serializeTraceMetadata(who, traceContext) ==
    /\ Running(who)
    /\ traceContext \in 0 .. Len(contexts)
    /\ IF ~Has(traceContext, "transaction")
       THEN last' = [NoCall EXCEPT !.op = "serializeTraceMetadata", !.arg = traceContext,
                        !.outcome = "throw", !.error = "MissingTransaction"]
       ELSE \E H \in HeaderMaps :
              last' = [NoCall EXCEPT !.op = "serializeTraceMetadata", !.arg = traceContext,
                          !.outcome = "return", !.inserted = H,
                          !.text = JSONstringify(
                              insertDistributedTraceHeaders(JSObject(NoFields), H)),
                          !.calls = <<"insertDistributedTraceHeaders">>]
    /\ UNCHANGED <<contexts, ctxUses, txs, segment, noticed, pc, flow, turn>>

\* ------------------------------------------------- deserializeTraceMetadata
HeadersContext(v) ==
    [EmptyContext EXCEPT !.has = {"distributedTraceHeaders"},
                         !.distributedTraceHeaders = v]

\* The headers the backend wrote into the string now passed in, when it is
\* the string serializeTraceMetadata has just returned.
Carried(input) ==
    IF last.op = "serializeTraceMetadata" /\ last.outcome = "return"
       /\ input = StringArg(last.text)
    THEN last.inserted ELSE JSUndefined

\* The promise is fulfilled with a new context object.
Returned(op, input, ctx) ==
    /\ Len(contexts) < MaxCtx
    /\ contexts' = Append(contexts, ctx)
    /\ ctxUses' = Append(ctxUses, 0)
    /\ last' = [NoCall EXCEPT !.op = op, !.input = input, !.outcome = "return",
                   !.returned = ctx,
                   !.inserted = Carried(input)]

\* The promise is rejected.
Thrown(op, input, error) ==
    /\ last' = [NoCall EXCEPT !.op = op, !.input = input, !.outcome = "throw",
                   !.error = error, !.inserted = Carried(input)]
    /\ UNCHANGED <<contexts, ctxUses>>

\* What arrives at the consumer: the string serializeTraceMetadata has just
\* returned, or something else.
Arriving ==
    MalformedArgs \cup {NullToken, NumberToken, UpstreamToken}
    \cup (IF last.op = "serializeTraceMetadata" /\ last.outcome = "return"
          THEN {StringArg(last.text)} ELSE {})

\* Faulty variant: the string is put on the context as it arrived, unparsed.
deserializeTraceMetadata_noParse(who, traceMetadata) ==
    /\ Running(who)
    /\ traceMetadata \in Arriving
    /\ Returned("deserialize_index", traceMetadata,
                HeadersContext(JSString("text")))
    /\ UNCHANGED <<txs, segment, noticed, pc, flow, turn>>

\* src/src/index.ts:
\*   async (traceMetadata) => ({ distributedTraceHeaders: JSON.parse(traceMetadata) })
deserializeTraceMetadata_index(who, traceMetadata) ==
    /\ Running(who)
    /\ traceMetadata \in Arriving
    /\ LET parsed == JSONparse(traceMetadata.text)
       IN IF parsed.ok
          THEN Returned("deserialize_index", traceMetadata,
                        HeadersContext(parsed.val))
          ELSE Thrown("deserialize_index", traceMetadata, "SyntaxError")
    /\ UNCHANGED <<txs, segment, noticed, pc, flow, turn>>

\* src/unnamed/part_000:
\*   try { if (typeof traceMetadata !== "string") return {};
\*         return { distributedTraceHeaders: JSON.parse(traceMetadata) };
\*   } catch (error) { return {}; }
deserializeTraceMetadata_part000(who, traceMetadata) ==
    /\ Running(who)
    /\ traceMetadata \in Arriving
    /\ LET parsed == JSONparse(traceMetadata.text)
       IN IF traceMetadata.type # "string"
          THEN Returned("deserialize_part000", traceMetadata, EmptyContext)
          ELSE IF parsed.ok
          THEN Returned("deserialize_part000", traceMetadata,
                        HeadersContext(parsed.val))
          ELSE Returned("deserialize_part000", traceMetadata, EmptyContext)
    /\ UNCHANGED <<txs, segment, noticed, pc, flow, turn>>

\* ------------------------------------------------------------ specification
SegmentArgs == {JSUndefined} \cup { JSString(s) : s \in SegmentNames }
Outcomes == {"ok"} \cup Errors
Callers == {"top"} \cup Flows

\* wrapHandler calls of the flows `flows` with names drawn from `names`, step
\* by step.
LifecycleOf(flows, names) ==
    \/ newContext
    \/ \E f \in flows, n \in names, c \in 0 .. MaxCtx : wrapHandler(f, n, c)
    \/ \E f \in flows : startBackgroundTransaction(f)
    \/ \E f \in flows : setTransaction(f)
    \/ \E f \in flows : acceptDistributedTraceHeaders(f)
    \/ \E f \in flows : invokeCallback(f)
    \/ \E f \in flows : callbackSuspend(f)
    \/ \E f \in flows : callbackResume(f)
    \/ \E f \in flows, o \in Outcomes : callbackSettle(f, o)
    \/ \E f \in flows : handlerSettle(f)
    \/ \E f \in flows : endTransaction(f)
    \/ \E f \in flows : wrapHandlerSettle(f)
    \/ \E f \in flows : release(f)

\* One flow: each wrapHandler call is awaited before the next is made.
Lifecycle(names) == LifecycleOf(Flows, names)

Codec ==
    \/ \E w \in Callers, c \in 0 .. MaxCtx : serializeTraceMetadata(w, c)
    \/ \E w \in Callers : \E a \in Arriving :
          deserializeTraceMetadata_index(w, a)
    \/ \E w \in Callers : \E a \in Arriving :
          deserializeTraceMetadata_part000(w, a)

Segments ==
    \/ \E f \in Flows, s \in SegmentArgs, c \in 0 .. MaxCtx :
          wrapHandlerSegment(f, s, c)
    \/ \E f \in Flows : workSuspend(f)
    \/ \E f \in Flows : workResume(f)
    \/ \E f \in Flows, o \in Outcomes : workSettle(f, o)
    \/ \E f \in Flows : endSegment(f)
    \/ \E f \in Flows : wrapHandlerSegmentSettle(f)

Reporting ==
    \E w \in Callers, e \in Errors, c \in 0 .. MaxCtx : onError(w, e, c)

\* Context lifecycle and propagation: the consumer of a message.
Next == Lifecycle({"Foo"}) \/ Codec
Spec == Init /\ [][Next]_vars

\* Segments inside a transaction.
SegmentNext == Lifecycle(TxNames) \/ Segments
SegmentSpec == Init /\ [][SegmentNext]_vars

\* Promise reactions are run once their promise has settled: the handle
\* resumes after the callback settled, the backend ends the transaction,
\* and wrapHandler resumes.
LifecycleNext == Lifecycle(TxNames)
Fairness ==
    \A f \in Flows :
        /\ WF_vars(handlerSettle(f))
        /\ WF_vars(endTransaction(f))
        /\ WF_vars(wrapHandlerSettle(f))
FairSpec == Init /\ [][LifecycleNext]_vars /\ Fairness

\* Error reports inside and outside a transaction.
ErrorNext == Lifecycle(TxNames) \/ Reporting
ErrorSpec == Init /\ [][ErrorNext]_vars

\* Two consumers at once: messages are decoded, and the wrapHandler calls made
\* for them interleave at their awaits.
ConcurrentNext ==
    \/ LifecycleOf(AllFlows, {"Foo"})
    \/ \E a \in Arriving : deserializeTraceMetadata_part000("top", a)
ConcurrentSpec == Init /\ [][ConcurrentNext]_vars

\* ------------------------------------------------------------------ claims
\* The callback of the flow has started and has not settled.
CallbackPending ==
    {"inCallback", "callbackSuspended", "inWork", "workSuspended",
     "workSettled", "segmentEnded"}
\* The callback of the flow has started.
CallbackStarted ==
    CallbackPending \cup {"callbackSettled", "handlerSettled",
                          "transactionEnded", "done"}
DeserializeOps == {"deserialize_index", "deserialize_part000"}

\* The acceptDistributedTraceHeaders calls the backend has seen: <<handle, i>>.
AcceptCalls ==
    UNION { { <<h, i>> : i \in 1 .. Len(txs[h].accepted) } : h \in 1 .. Len(txs) }
AcceptCall(e) == txs[e[1]].accepted[e[2]]
\* Those made for the flow's wrapHandler call.
AcceptCallsOf(f) ==
    { e \in AcceptCalls : /\ AcceptCall(e).context = flow[f].context
                          /\ AcceptCall(e).use = flow[f].use }

\* C1 -- One-shot acceptance: when wrapHandler has run with a context whose
\* distributedTraceHeaders is a header map H, the backend was asked to accept
\* linkage exactly once for that run, in the run's own transaction, with
\* category "Queue" and headers H, and the context has no
\* distributedTraceHeaders field afterwards.
C1_OneShotAcceptance ==
    \A f \in AllFlows :
        (pc[f] = "done" /\ flow[f].hadInbound /\ IsHeaderMap(flow[f].inbound))
        => /\ Cardinality(AcceptCallsOf(f)) = 1
           /\ \A e \in AcceptCallsOf(f) :
                 /\ e[1] = flow[f].tx
                 /\ AcceptCall(e).category = "Queue"
                 /\ AcceptCall(e).headers = flow[f].inbound
           /\ "distributedTraceHeaders" \notin contexts[flow[f].context].has

C1_Witness ==
    \E f \in AllFlows :
        /\ pc[f] = "done"
        /\ flow[f].hadInbound
        /\ flow[f].inbound = FullMap
        /\ Len(txs[flow[f].tx].accepted) = 1

\* C2 -- Ordering: while the callback of a wrapHandler call that carried a
\* header map H is running or suspended, H has already been accepted into the
\* call's transaction and removed from the context, and the context the
\* callback was handed did not carry it.
C2_AcceptedBeforeCallback ==
    \A f \in AllFlows :
        (pc[f] \in CallbackPending /\ flow[f].hadInbound
            /\ IsHeaderMap(flow[f].inbound))
        => /\ \E i \in 1 .. Len(txs[flow[f].tx].accepted) :
                 txs[flow[f].tx].accepted[i].headers = flow[f].inbound
           /\ "distributedTraceHeaders" \notin contexts[flow[f].context].has
           /\ "distributedTraceHeaders" \notin flow[f].cbSeen.has

C2_Witness ==
    \E f \in AllFlows :
        /\ pc[f] = "callbackSuspended"
        /\ flow[f].hadInbound
        /\ flow[f].inbound = JSObject([k \in {"traceparent"} |-> JSString("p")])
        /\ Len(txs[flow[f].tx].accepted) = 1

\* C3 -- Error propagation: when the callback raised E, wrapHandler is
\* rejected with that same E, and by the time it is rejected the transaction
\* of the call has been closed, exactly once.
C3_ErrorPropagation ==
    \A f \in AllFlows :
        (flow[f].cbOutcome \in Errors
            /\ (pc[f] = "done" \/ flow[f].result # "pending"))
        => /\ flow[f].result = flow[f].cbOutcome
           /\ txs[flow[f].tx].state = "closed"
           /\ txs[flow[f].tx].ends = 1

C3_Witness ==
    \E f \in AllFlows :
        /\ pc[f] = "done"
        /\ flow[f].cbOutcome = "E2"
        /\ flow[f].result = "E2"
        /\ txs[flow[f].tx].state = "closed"

\* C4 -- The transaction bounds the callback: it is open whenever the
\* callback is running or suspended; the backend closes it only once the
\* callback has settled and before wrapHandler has; wrapHandler has settled
\* only when it is closed; and once the callback has settled, the transaction
\* is closed and wrapHandler settles.
C4_TransactionBoundsCallback ==
    /\ [](\A f \in AllFlows :
            pc[f] \in CallbackPending => txs[flow[f].tx].state = "open")
    /\ [][\A f \in AllFlows :
            (/\ flow[f].tx # 0
             /\ txs[flow[f].tx].state = "open"
             /\ txs'[flow[f].tx].state = "closed")
            => (flow[f].cbOutcome # "pending" /\ flow[f].result = "pending")]_vars
    /\ [](\A f \in AllFlows :
            flow[f].result # "pending" => txs[flow[f].tx].state = "closed")
    /\ \A f \in Flows :
            (pc[f] = "callbackSettled")
            ~> (pc[f] = "done" /\ txs[flow[f].tx].state = "closed")

C4_Witness ==
    \E f \in AllFlows :
        /\ pc[f] = "transactionEnded"
        /\ flow[f].cbOutcome = "E1"
        /\ flow[f].result = "pending"
        /\ txs[flow[f].tx].state = "closed"

\* C5 -- Missing-transaction serialize: a call of serializeTraceMetadata on
\* an absent context or on one with no transaction field is rejected with the
\* missing-transaction error, calls nothing of the backend, and leaves every
\* context and the backend as they were.
C5_MissingTransactionSerialize ==
    [][(/\ last' # last
        /\ last'.op = "serializeTraceMetadata"
        /\ ~Has(last'.arg, "transaction"))
       => /\ last'.outcome = "throw"
          /\ last'.error = "MissingTransaction"
          /\ last'.calls = <<>>
          /\ UNCHANGED <<contexts, ctxUses, backend>>]_vars

C5_Witness ==
    /\ last.op = "serializeTraceMetadata"
    /\ last.outcome = "throw"
    /\ last.arg # 0
    /\ contexts[last.arg].has = {"distributedTraceHeaders"}

\* C6 -- Graceful malformed deserialize: for a malformed argument (not a
\* string, or a string that is no JSON text) deserializeTraceMetadata raises
\* nothing and returns a context with no distributedTraceHeaders field.
Malformed(a) == a.type # "string" \/ ~JSONparse(a.text).ok
C6_GracefulMalformed ==
    (last.op \in DeserializeOps /\ Malformed(last.input))
    => /\ last.outcome = "return"
       /\ "distributedTraceHeaders" \notin last.returned.has

\* C7 -- Round trip: for every header map H, deserializeTraceMetadata applied
\* to the string serializeTraceMetadata returns when the backend's headers
\* are H returns a context whose distributedTraceHeaders is H.
C7_RoundTrip ==
    /\ \A H \in HeaderMaps :
          (/\ last.op \in DeserializeOps
           /\ last.input = StringArg(JSONstringify(
                  insertDistributedTraceHeaders(JSObject(NoFields), H))))
          => /\ last.outcome = "return"
             /\ last.returned = HeadersContext(H)
    /\ (last.op \in DeserializeOps /\ last.inserted # JSUndefined)
       => /\ last.outcome = "return"
          /\ last.returned = HeadersContext(last.inserted)

C7_Witness ==
    /\ last.op = "deserialize_part000"
    /\ last.inserted = FullMap
    /\ last.returned = HeadersContext(FullMap)

\* C8 -- Default segment naming: the segment wrapHandlerSegment starts is
\* named segmentName when that is not empty; when it is empty or absent and
\* the context passed is the one of the enclosing wrapHandler, it is named
\* "<txName>-segment", txName being the name given to that wrapHandler.
C8_SegmentNaming ==
    \A f \in AllFlows :
        segment[f].state # "none"
        => IF Truthy(segment[f].segmentName)
           THEN segment[f].name = segment[f].segmentName.prim
           ELSE segment[f].arg = flow[f].context
                => segment[f].name = flow[f].txName \o "-segment"

C8_Witness ==
    \E f \in AllFlows :
        /\ segment[f].state = "open"
        /\ segment[f].segmentName = JSString("")
        /\ segment[f].arg = flow[f].context
        /\ flow[f].txName = "Foo"
        /\ segment[f].name = "Foo-segment"

\* C9 -- No re-acceptance across reuse: over the wrapHandler calls made on
\* one context object, the backend is asked to accept linkage from that
\* context at most once, and only in the first of those calls.
C9_NoReacceptance ==
    \A e1 \in AcceptCalls :
        /\ AcceptCall(e1).use = 1
        /\ \A e2 \in AcceptCalls :
              AcceptCall(e1).context = AcceptCall(e2).context => e1 = e2

C9_Witness ==
    \E f \in AllFlows :
        /\ pc[f] = "done"
        /\ flow[f].use = 2
        /\ txs[flow[f].tx].accepted = <<>>
        /\ \E e \in AcceptCalls :
              /\ AcceptCall(e).context = flow[f].context
              /\ AcceptCall(e).headers = FullMap

\* C10 -- Absent context: a wrapHandler call with no context does not fail;
\* its callback is started exactly once, with a context that has the given
\* name, the handle of the call's transaction and no distributedTraceHeaders,
\* and the backend is not asked to accept linkage.
C10_AbsentContext ==
    \A f \in AllFlows :
        (pc[f] \in CallbackStarted /\ flow[f].arg = 0)
        => /\ flow[f].cbCalls = 1
           /\ flow[f].result \in {"pending", flow[f].cbOutcome}
           /\ flow[f].cbSeen.has = {"txName", "transaction"}
           /\ flow[f].cbSeen.txName = flow[f].txName
           /\ flow[f].cbSeen.transaction = flow[f].tx
           /\ txs[flow[f].tx].accepted = <<>>

C10_Witness ==
    \E f \in AllFlows :
        /\ pc[f] = "done"
        /\ flow[f].arg = 0
        /\ flow[f].cbCalls = 1
        /\ flow[f].result = "ok"

\* C11 -- Context set up before the callback, in place: in a wrapHandler call
\* that was given a context, the object the call works on and hands to the
\* callback is the caller's own; when the callback starts, it has the given
\* name and the handle of the transaction this call started; and the caller
\* finds the same name and handle on its object once wrapHandler has returned.
C11_InPlaceSetup ==
    \A f \in AllFlows :
        (pc[f] \in CallbackStarted /\ flow[f].arg # 0)
        => /\ flow[f].context = flow[f].arg
           /\ {"txName", "transaction"} \subseteq flow[f].cbSeen.has
           /\ flow[f].cbSeen.txName = flow[f].txName
           /\ flow[f].cbSeen.transaction = flow[f].tx
           /\ txs[flow[f].tx].name = flow[f].txName
           /\ pc[f] = "done"
              => /\ Has(flow[f].arg, "txName")
                 /\ Has(flow[f].arg, "transaction")
                 /\ contexts[flow[f].arg].txName = flow[f].txName
                 /\ contexts[flow[f].arg].transaction = flow[f].tx

C11_Witness ==
    \E f \in AllFlows :
        /\ pc[f] = "done"
        /\ flow[f].arg = 1
        /\ flow[f].use = 2
        /\ flow[f].tx = 2
        /\ contexts[1].transaction = 2
        /\ flow[f].cbSeen.transaction = 2

\* The transaction of the async context whose code is running, 0 outside
\* every transaction.
Ambient == IF turn \in AllFlows THEN flow[turn].tx ELSE 0

\* C12 -- onError is fire-and-forget: every call of onError, whatever the
\* error and the context argument, hands that error to the backend's
\* noticeError exactly once, is not rejected, leaves every transaction as
\* open or closed as it was and every context as it was; the backend files
\* the error under the ambient transaction, whatever the context argument
\* holds.
C12_OnErrorFireAndForget ==
    [][(/\ last'.op = "onError"
        /\ (last' # last \/ noticed' # noticed))
       => /\ noticed' = Append(noticed, [error |-> last'.error, tx |-> Ambient])
          /\ last'.calls = <<"noticeError">>
          /\ last'.outcome = "return"
          /\ UNCHANGED <<contexts, ctxUses, txs, segment, pc, flow>>]_vars

C12_Witness ==
    /\ last.op = "onError"
    /\ last.arg # 0
    /\ Has(last.arg, "transaction")
    /\ noticed # <<>>
    /\ noticed[Len(noticed)].tx # 0
    /\ noticed[Len(noticed)].tx # contexts[last.arg].transaction
    /\ txs[noticed[Len(noticed)].tx].state = "open"

\* C13 -- Deserialization is backend-free: every call of
\* deserializeTraceMetadata, whatever its input, calls nothing of the backend
\* (no transaction is started, no linkage accepted, no flow or transaction
\* changed) and returns a new context object that has neither a transaction
\* handle nor a name.
C13_DeserializeBackendFree ==
    [][(/\ last'.op \in DeserializeOps
        /\ (last' # last \/ contexts' # contexts))
       => /\ last'.calls = <<>>
          /\ UNCHANGED <<backend, pc, flow, turn>>
          /\ last'.outcome = "return"
          /\ contexts' = Append(contexts, last'.returned)
          /\ "transaction" \notin last'.returned.has
          /\ "txName" \notin last'.returned.has]_vars

\* The work of the flow's segment has started and wrapHandlerSegment has not
\* settled.
InSegment == {"inWork", "workSuspended", "workSettled", "segmentEnded"}

\* C14 -- Segment extent and error propagation: wrapHandlerSegment starts the
\* segment with the flag true; the segment is open while the work runs or is
\* suspended, and the backend closes it only once the work has settled and
\* before wrapHandlerSegment has; when the work raised E, wrapHandlerSegment
\* is rejected with that same E, the segment having been closed, once; and
\* the enclosing transaction is open from the start of the work until
\* wrapHandlerSegment settles.
C14_SegmentExtent ==
    /\ [](\A f \in AllFlows :
            segment[f].state # "none" => segment[f].record = TRUE)
    /\ [](\A f \in AllFlows :
            pc[f] \in {"inWork", "workSuspended"}
            => (segment[f].state = "open" /\ segment[f].ends = 0))
    /\ [][\A f \in AllFlows :
            (segment[f].state = "open" /\ segment'[f].state = "closed")
            => (segment[f].outcome # "pending" /\ segment[f].result = "pending")]_vars
    /\ [](\A f \in AllFlows :
            (segment[f].outcome \in Errors /\ segment[f].result # "pending")
            => /\ segment[f].result = segment[f].outcome
               /\ segment[f].state = "closed"
               /\ segment[f].ends = 1)
    /\ [](\A f \in AllFlows :
            pc[f] \in InSegment
            => /\ segment[f].tx = flow[f].tx
               /\ txs[flow[f].tx].state = "open")
    /\ [][\A f \in AllFlows :
            (pc[f] = "segmentEnded" /\ pc'[f] # "segmentEnded")
            => txs'[flow[f].tx].state = "open"]_vars

C14_Witness ==
    \E f \in AllFlows :
        /\ pc[f] = "inCallback"
        /\ segment[f].outcome = "E1"
        /\ segment[f].result = "E1"
        /\ segment[f].state = "closed"
        /\ txs[flow[f].tx].state = "open"

\* C15 -- Serialize inside an active transaction: a call of
\* serializeTraceMetadata on a context that has a transaction handle returns
\* the string that encodes exactly the headers the backend writes for that
\* handle, after one call of insertDistributedTraceHeaders, and changes no
\* field of any context and no transaction's state; so however many calls the
\* callback makes, its transaction stays open.
C15_SerializeInTransaction ==
    [][(/\ last'.op = "serializeTraceMetadata"
        /\ last' # last
        /\ Has(last'.arg, "transaction"))
       => /\ last'.outcome = "return"
          /\ last'.calls = <<"insertDistributedTraceHeaders">>
          /\ JSONparse(last'.text) = ParseOk(last'.inserted)
          /\ UNCHANGED <<contexts, ctxUses, backend, pc, flow, turn>>
          /\ \A f \in AllFlows :
                pc[f] = "inCallback" => txs'[flow[f].tx].state = "open"]_vars

C15_Witness ==
    \E f \in AllFlows :
        /\ pc[f] = "inCallback"
        /\ turn = f
        /\ last.op = "serializeTraceMetadata"
        /\ last.outcome = "return"
        /\ last.arg = flow[f].context
        /\ last.inserted = FullMap
        /\ txs[flow[f].tx].state = "open"

\* The flow's wrapHandler call has set the handle and has not settled.
HandleSet == CallbackStarted \ {"done"}

\* C16 -- No cross-context contamination under interleaving: while two
\* wrapHandler calls given distinct context objects (or none) are both in
\* progress, interleaved at their awaits, they work on distinct objects and
\* have distinct transactions; each one's context holds the handle of the
\* transaction started for that call, which is also the handle its callback
\* saw; and the linkage of each one's context was accepted into its own
\* transaction and no other.
C16_NoCrossContamination ==
    \A f \in AllFlows : \A g \in AllFlows \ {f} :
        (/\ pc[f] \in HandleSet
         /\ pc[g] \notin {"idle", "done"}
         /\ (flow[f].arg # flow[g].arg \/ flow[f].arg = 0))
        => /\ flow[f].context # flow[g].context
           /\ flow[f].tx # flow[g].tx
           /\ contexts[flow[f].context].transaction = flow[f].tx
           /\ flow[f].cbSeen.transaction = flow[f].tx
           /\ \A e \in AcceptCallsOf(f) : e[1] = flow[f].tx
           /\ \A i \in 1 .. Len(txs[flow[f].tx].accepted) :
                 /\ txs[flow[f].tx].accepted[i].context = flow[f].context
                 /\ txs[flow[f].tx].accepted[i].headers = flow[f].inbound
           /\ (flow[f].hadInbound /\ Truthy(flow[f].inbound))
              => Len(txs[flow[f].tx].accepted) = 1

C16_Witness ==
    /\ pc["f1"] = "callbackSuspended"
    /\ pc["f2"] = "callbackSuspended"
    /\ flow["f1"].context # flow["f2"].context
    /\ flow["f1"].inbound = FullMap
    /\ flow["f2"].inbound = FullMap
    /\ flow["f1"].tx = 2
    /\ flow["f2"].tx = 1
    /\ Len(txs[1].accepted) = 1
    /\ Len(txs[2].accepted) = 1

\* C17 -- Decoded linkage is a mapping or absent: the context that
\* deserializeTraceMetadata returns for a string has no distributedTraceHeaders
\* field or has one that is a mapping of string keys to string values, also
\* when the string is JSON text of something else (null, a number); so
\* wrapHandler hands the backend's acceptDistributedTraceHeaders nothing but
\* such mappings, and leaves no distributedTraceHeaders field on the context
\* its callback gets.
C17_DecodedLinkageIsMapping ==
    /\ (/\ last.op \in DeserializeOps
        /\ last.input.type = "string"
        /\ last.outcome = "return")
       => \/ "distributedTraceHeaders" \notin last.returned.has
          \/ IsHeaderMap(last.returned.distributedTraceHeaders)
    /\ \A e \in AcceptCalls : IsHeaderMap(AcceptCall(e).headers)
    /\ \A f \in AllFlows :
          pc[f] \in CallbackStarted
          => /\ "distributedTraceHeaders" \notin flow[f].cbSeen.has
             /\ "distributedTraceHeaders" \notin contexts[flow[f].context].has

\* C18 -- Stale handle after finalization: no step takes the transaction
\* field off a context; once wrapHandler has settled, fulfilled or rejected,
\* its context still holds the handle of its transaction, which is closed;
\* and serializeTraceMetadata on a context that holds the handle of a closed
\* transaction is not rejected with the missing-transaction error but calls
\* insertDistributedTraceHeaders on that handle and returns.
C18_StaleHandle ==
    /\ [][\A c \in 1 .. Len(contexts) :
            "transaction" \in contexts[c].has
            => "transaction" \in contexts'[c].has]_vars
    /\ [](\A f \in AllFlows :
            pc[f] = "done"
            => /\ Has(flow[f].context, "transaction")
               /\ contexts[flow[f].context].transaction = flow[f].tx
               /\ txs[flow[f].tx].state = "closed")
    /\ [][(/\ last'.op = "serializeTraceMetadata"
           /\ last' # last
           /\ Has(last'.arg, "transaction")
           /\ txs[contexts[last'.arg].transaction].state = "closed")
          => /\ last'.outcome = "return"
             /\ last'.error # "MissingTransaction"
             /\ last'.calls = <<"insertDistributedTraceHeaders">>]_vars

C18_Witness ==
    \E f \in AllFlows :
        /\ pc[f] = "done"
        /\ flow[f].result \in Errors
        /\ last.op = "serializeTraceMetadata"
        /\ last.arg = flow[f].context
        /\ last.outcome = "return"
        /\ txs[contexts[last.arg].transaction].state = "closed"
====
